---- MODULE Spec2Model ----
(***************************************************************************)
(* Model of the crawl controller of screen-scout (src/screenshot.js):      *)
(* takeScreenshots, findLinks and the main script.  The headless browser   *)
(* is an external collaborator: every awaited browser call either returns  *)
(* or throws, and the anchors of a loaded page are an arbitrary list.      *)
(*                                                                         *)
(* A URL string is a sequence of tokens; String.prototype.startsWith is    *)
(* the prefix relation on these sequences.  The tokens are chosen so that  *)
(* the prefix relation on the token sequences of the URLs below is the     *)
(* prefix relation on their characters.                                    *)
(***************************************************************************)
EXTENDS Integers, Sequences, FiniteSets, TLC

\* ---- bounds ----
MaxDepth == 3
MaxPages == 3
MaxLinks == 2

\* ---- URL strings ----
SeedUrl     == <<"http", "s", "://", "a.test", "/">>
SameUrl     == <<"http", "s", "://", "a.test", "/x">>
OtherUrl    == <<"http", "s", "://", "b.test", "/y">>
EvilUrl     == <<"http", "s", "://", "a.test", ".evil.com", "/x">>
HttpxUrl    == <<"http", "x", "://", "a.test", "/z">>
MailUrl     == <<"mailto", ":", "a@a.test">>

Urls == {SeedUrl, SameUrl, OtherUrl, EvilUrl, HttpxUrl, MailUrl}

\* the targets of the anchors of an arbitrary page
LinkUrls == {SeedUrl, SameUrl, EvilUrl, HttpxUrl, MailUrl}
\* argv.url: a URL, or nothing (the empty string)
Seeds == {SeedUrl, <<>>}

\* the default of --maxPages, and the page cap of Scenarios A and B
DefaultMaxPages == 10

\* the anchors of the seed page in Scenarios B and C
ScenarioLinks == <<SameUrl, SameUrl, OtherUrl>>

\* the anchors of each page of the graph web, a fixed site: the seed links
\* to x and y, x links to y, y links to a fourth page without links
GraphLinks(u) ==
  CASE u = SeedUrl  -> <<SameUrl, OtherUrl>>
    [] u = SameUrl  -> <<OtherUrl>>
    [] u = OtherUrl -> <<EvilUrl>>
    [] OTHER        -> <<>>

\* the default of --resolution, and a value that is not WIDTHxHEIGHT
DefaultResolution == <<"1920", "x", "1080">>
BadResolution == <<"wide">>

\* parseInt(dim, 10) yields a number, not NaN
IsNumeric(dim) == dim \in {"1920", "1080"}

\* resolution.split('x').map(dim => parseInt(dim, 10)) yields a width and a
\* height that page.setViewport() accepts
ViewportValid(res) ==
  LET dims == SelectSeq(res, LAMBDA t : t # "x")
  IN Len(dims) >= 2 /\ IsNumeric(dims[1]) /\ IsNumeric(dims[2])

\* the default of the currentDepth parameter of takeScreenshots
InitialDepth == 1

PathTokens == {"/", "/x", "/y", "/z"}

\* s.startsWith(p)
StartsWith(s, p) == Len(p) <= Len(s) /\ SubSeq(s, 1, Len(p)) = p

\* new URL(u).protocol without the colon
Scheme(u) ==
  IF \E i \in 1..Len(u) : u[i] \in {"://", ":"}
    THEN LET i == CHOOSE k \in 1..Len(u) :
                    /\ u[k] \in {"://", ":"}
                    /\ \A j \in 1..(k-1) : u[j] \notin {"://", ":"}
         IN SubSeq(u, 1, i - 1)
    ELSE <<>>

\* new URL(u).origin: scheme://host[:port] for http and https, the string
\* "null" for every other scheme
Origin(u) ==
  IF Scheme(u) \in {<<"http">>, <<"http", "s">>}
    THEN SelectSeq(u, LAMBDA t : t \notin PathTokens)
    ELSE <<"null">>

UniqueKeepsAll(list) == list

\* Array.from(new Set(list)): first occurrences, in order
RECURSIVE Unique(_)
Unique(list) ==
  IF list = <<>> THEN <<>>
  ELSE LET front == Unique(SubSeq(list, 1, Len(list) - 1))
           last  == list[Len(list)]
       IN IF \E i \in 1..Len(front) : front[i] = last
            THEN front ELSE Append(front, last)

\* the callback of links.forEach in findLinks
KeepLink(href, base, follow) ==
  /\ StartsWith(href, <<"http">>)
  /\ (follow \/ StartsWith(href, base))

\* findLinks(page, base, followExternal) on a page with anchors `anchors`
FindLinks(anchors, base, follow) ==
  Unique(SelectSeq(anchors, LAMBDA href : KeepLink(href, base, follow)))

\* all anchor lists of a page, up to MaxLinks anchors
AnchorLists == UNION {[1..n -> LinkUrls] : n \in 0..MaxLinks}

\* the anchor lists a page of the crawled web can have: anything, or, in
\* the scenario web, the anchors of Scenario B on every page
Pages(w) == IF w = "scenario" THEN {ScenarioLinks} ELSE AnchorLists

\* the anchor lists the page at u can have; in the graph web the anchors
\* of a page are a function of its URL
PageAnchors(w, u) == IF w = "graph" THEN {GraphLinks(u)} ELSE Pages(w)

\* ---- state ----
VARIABLES
  url,            \* argv.url
  depth,          \* argv.depth
  maxPages,       \* argv.maxPages
  followExternal, \* argv.followExternal
  resolution,     \* argv.resolution
  web,            \* the crawled web: "any", "scenario" or "graph"
  stack,          \* the chain of pending takeScreenshots calls, innermost last
  visited,        \* the shared Set of visited URLs
  promise,        \* the promise of the top-level takeScreenshots call
  status,         \* what the main script has printed
  launches,       \* per URL, how often puppeteer.launch() was called for it
  gotos,          \* per URL, how often page.goto() was called for it
  open,           \* URLs whose browser was launched and not closed
  failed          \* URLs whose call ended in the catch block

vars == <<url, depth, maxPages, followExternal, resolution, web, stack,
          visited, promise, status, launches, gotos, open, failed>>

config == <<url, depth, maxPages, followExternal, resolution, web>>

Init ==
  /\ \/ /\ web = "any"
        /\ url \in Seeds
        /\ depth \in 0..MaxDepth
        /\ maxPages \in 0..MaxPages
        /\ followExternal \in BOOLEAN
        /\ resolution = DefaultResolution
     \/ /\ web = "scenario"
        /\ url \in {SeedUrl, MailUrl}
        /\ depth \in {1, 2}
        /\ maxPages \in {1, DefaultMaxPages}
        /\ followExternal \in BOOLEAN
        /\ resolution \in {DefaultResolution, BadResolution}
     \/ /\ web = "graph"
        /\ url = SeedUrl
        /\ depth \in {2, 3}
        /\ maxPages = DefaultMaxPages
        /\ followExternal = TRUE
        /\ resolution = DefaultResolution
  /\ stack = <<>>
  /\ visited = {}
  /\ promise = "none"
  /\ status = "none"
  /\ launches = [u \in Urls |-> 0]
  /\ gotos = [u \in Urls |-> 0]
  /\ open = {}
  /\ failed = {}

Top == stack[Len(stack)]

GuardCapOffByOne(vis, currentDepth) ==
  Cardinality(vis) > maxPages \/ currentDepth > depth

GuardNoCap(vis, currentDepth) == currentDepth > depth

GuardNoDepth(vis, currentDepth) == Cardinality(vis) >= maxPages

\* the entry guard of takeScreenshots
Guard(vis, currentDepth) ==
  Cardinality(vis) >= maxPages \/ currentDepth > depth

MayExpandInclusive(currentDepth) == currentDepth <= depth

\* the condition under which a page's links are followed
MayExpand(currentDepth) == currentDepth < depth

IsVisitedNever(vis, link) == FALSE

\* visited.has(link)
IsVisited(vis, link) == link \in vis

FrameOneDeeper(targetUrl, currentDepth) ==
  [url |-> targetUrl, currentDepth |-> currentDepth + 1, pc |-> "launch",
   links |-> <<>>]

\* a new call that got past the guard, suspended at its first await
Frame(targetUrl, currentDepth) ==
  [url |-> targetUrl, currentDepth |-> currentDepth, pc |-> "launch",
   links |-> <<>>]

\* the innermost call returns: its caller, suspended in the for-of loop on
\* the link it passed, moves on to the next link; the outermost call
\* resolves the promise
Return(stk) ==
  IF Len(stk) = 1 THEN <<>>
  ELSE LET caller == stk[Len(stk) - 1]
       IN Append(SubSeq(stk, 1, Len(stk) - 2),
                 [caller EXCEPT !.links = Tail(caller.links)])

CatchRethrow(stk) == [stack |-> <<>>, rejected |-> TRUE]

\* the catch block: log the error, then fall off the end of the function
Catch(stk) == [stack |-> Return(stk), rejected |-> FALSE]

Settle(stk, rejected) ==
  IF stk # <<>> THEN "pending"
  ELSE IF rejected THEN "rejected" ELSE "resolved"

SetTop(f) == stack' = [stack EXCEPT ![Len(stack)] = f]

\* ---- main script ----
Main ==
  /\ status = "none" /\ promise = "none"
  /\ IF url = <<>>
       THEN /\ status' = "help"
            /\ UNCHANGED <<stack, visited, promise, launches>>
       ELSE /\ status' = "running"
            /\ IF Guard(visited, InitialDepth)
                 THEN /\ promise' = "resolved"
                      /\ UNCHANGED <<stack, visited, launches>>
                 ELSE /\ promise' = "pending"
                      /\ visited' = visited \cup {url}
                      /\ launches' = [launches EXCEPT ![url] = @ + 1]
                      /\ stack' = <<Frame(url, InitialDepth)>>
  /\ UNCHANGED <<config, gotos, open, failed>>

\* .then(...) / .catch(...) of the main script
Report ==
  /\ status = "running"
  /\ promise \in {"resolved", "rejected"}
  /\ status' = IF promise = "resolved" THEN "completed" ELSE "error"
  /\ UNCHANGED <<config, stack, visited, promise, launches, gotos, open,
                 failed>>

\* ---- takeScreenshots, one awaited call per action ----
Running(pc) == stack # <<>> /\ Top.pc = pc

\* await puppeteer.launch() returns
Launch ==
  /\ Running("launch")
  /\ open' = open \cup {Top.url}
  /\ SetTop([Top EXCEPT !.pc = "newPage"])
  /\ UNCHANGED <<config, visited, promise, status, launches, gotos, failed>>

\* await browser.newPage() returns
NewPage ==
  /\ Running("newPage")
  /\ SetTop([Top EXCEPT !.pc = "setViewport"])
  /\ UNCHANGED <<config, visited, promise, status, launches, gotos, open,
                 failed>>

\* the resolution is parsed and await page.setViewport() returns, which
\* takes a numeric width and height; page.goto() is called
SetViewport ==
  /\ Running("setViewport")
  /\ ViewportValid(resolution)
  /\ gotos' = [gotos EXCEPT ![Top.url] = @ + 1]
  /\ SetTop([Top EXCEPT !.pc = "goto"])
  /\ UNCHANGED <<config, visited, promise, status, launches, open, failed>>

\* await page.goto() returns: the page is loaded
Goto ==
  /\ Running("goto")
  /\ SetTop([Top EXCEPT !.pc = "capture"])
  /\ UNCHANGED <<config, visited, promise, status, launches, gotos, open,
                 failed>>

\* await page.pdf() / page.screenshot() returns; if the depth allows,
\* findLinks is called
Capture ==
  /\ Running("capture")
  /\ SetTop([Top EXCEPT !.pc = IF MayExpand(Top.currentDepth)
                                 THEN "findLinks" ELSE "close"])
  /\ UNCHANGED <<config, visited, promise, status, launches, gotos, open,
                 failed>>

\* await findLinks() returns what it kept of the anchors of the page
FindLinksReturn ==
  /\ Running("findLinks")
  /\ \E anchors \in PageAnchors(web, Top.url) :
       SetTop([Top EXCEPT !.pc = "loop",
                          !.links = FindLinks(anchors, Origin(Top.url),
                                              followExternal)])
  /\ UNCHANGED <<config, visited, promise, status, launches, gotos, open,
                 failed>>

\* for (const link of links): the next link is already visited
LoopSkip ==
  /\ Running("loop")
  /\ Top.links # <<>>
  /\ IsVisited(visited, Head(Top.links))
  /\ SetTop([Top EXCEPT !.links = Tail(Top.links)])
  /\ UNCHANGED <<config, visited, promise, status, launches, gotos, open,
                 failed>>

\* the next link is not visited: takeScreenshots(link, ..., currentDepth + 1)
\* is called and returns at its guard
LoopCallRejected ==
  /\ Running("loop")
  /\ Top.links # <<>>
  /\ ~IsVisited(visited, Head(Top.links))
  /\ Guard(visited, Top.currentDepth + 1)
  /\ SetTop([Top EXCEPT !.links = Tail(Top.links)])
  /\ UNCHANGED <<config, visited, promise, status, launches, gotos, open,
                 failed>>

\* the next link is not visited: takeScreenshots is called, passes its guard,
\* adds the link to visited and calls puppeteer.launch()
LoopCall ==
  /\ Running("loop")
  /\ Top.links # <<>>
  /\ ~IsVisited(visited, Head(Top.links))
  /\ ~Guard(visited, Top.currentDepth + 1)
  /\ visited' = visited \cup {Head(Top.links)}
  /\ launches' = [launches EXCEPT ![Head(Top.links)] = @ + 1]
  /\ stack' = Append(stack, Frame(Head(Top.links), Top.currentDepth + 1))
  /\ UNCHANGED <<config, promise, status, gotos, open, failed>>

\* the loop is over: browser.close() is called
LoopEnd ==
  /\ Running("loop")
  /\ Top.links = <<>>
  /\ SetTop([Top EXCEPT !.pc = "close"])
  /\ UNCHANGED <<config, visited, promise, status, launches, gotos, open,
                 failed>>

CloseForgets ==
  /\ Running("close")
  /\ stack' = Return(stack)
  /\ promise' = Settle(stack', FALSE)
  /\ UNCHANGED <<config, visited, status, launches, gotos, open, failed>>

\* await browser.close() returns and the call returns
Close ==
  /\ Running("close")
  /\ open' = open \ {Top.url}
  /\ stack' = Return(stack)
  /\ promise' = Settle(stack', FALSE)
  /\ UNCHANGED <<config, visited, status, launches, gotos, failed>>

ThrowThenExpand ==
  /\ stack # <<>>
  /\ Top.pc \in {"launch", "newPage", "setViewport", "goto", "capture"}
  /\ failed' = failed \cup {Top.url}
  /\ SetTop([Top EXCEPT !.pc = "findLinks"])
  /\ UNCHANGED <<config, visited, promise, status, launches, gotos, open>>

ThrowUnclaims ==
  /\ stack # <<>>
  /\ Top.pc \in {"launch", "newPage", "setViewport", "goto", "capture",
                 "findLinks", "close"}
  /\ failed' = failed \cup {Top.url}
  /\ visited' = visited \ {Top.url}
  /\ stack' = Catch(stack).stack
  /\ promise' = Settle(stack', Catch(stack).rejected)
  /\ UNCHANGED <<config, status, launches, gotos, open>>

\* the awaited call of the innermost takeScreenshots throws
Throw ==
  /\ stack # <<>>
  /\ Top.pc \in {"launch", "newPage", "setViewport", "goto", "capture",
                 "findLinks", "close"}
  /\ failed' = failed \cup {Top.url}
  /\ stack' = Catch(stack).stack
  /\ promise' = Settle(stack', Catch(stack).rejected)
  /\ UNCHANGED <<config, visited, status, launches, gotos, open>>

Next ==
  \/ Main
  \/ Report
  \/ Launch
  \/ NewPage
  \/ SetViewport
  \/ Goto
  \/ Capture
  \/ FindLinksReturn
  \/ LoopSkip
  \/ LoopCallRejected
  \/ LoopCall
  \/ LoopEnd
  \/ Close
  \/ Throw

Spec == Init /\ [][Next]_vars

\* every awaited browser call returns or throws, and the event loop runs the
\* continuation
FairSpec == Spec /\ WF_vars(Next)

\* ---- properties ----
NoDup(seq) == \A i, j \in 1..Len(seq) : i # j => seq[i] # seq[j]

RECURSIVE SumOver(_, _)
SumOver(f, S) ==
  IF S = {} THEN 0
  ELSE LET u == CHOOSE x \in S : TRUE IN f[u] + SumOver(f, S \ {u})

\* the number of puppeteer.launch() calls of the run
TotalLaunches == SumOver(launches, Urls)

\* C1: the visited set never holds more than maxPages URLs.
C1_VisitedWithinCap == Cardinality(visited) <= maxPages

\* the cap is reached while the running call still has an unvisited link
C1_Witness ==
  /\ maxPages >= 2
  /\ Cardinality(visited) = maxPages
  /\ Running("loop")
  /\ Top.links # <<>>
  /\ Head(Top.links) \notin visited

\* C2: no URL is rendered (puppeteer.launch() called by the call that then
\* issues page.goto() for it) more than once in a run, whatever the links
\* are and whether or not its first render failed.
C2_RenderedOnce == \A u \in Urls : launches[u] <= 1 /\ gotos[u] <= 1

\* a page at depth 2 links to a URL that the seed page linked to as well
\* and whose render failed
C2_Witness ==
  /\ Len(stack) = 2
  /\ Top.pc = "loop"
  /\ Top.links # <<>>
  /\ Head(Top.links) \in failed
  /\ gotos[Head(Top.links)] = 1
  /\ Head(Top.links) # url

\* C3: with followExternal false, every call below the seed is for a URL of
\* the same origin as the page it was found on.
C3_ChildSameOrigin ==
  ~followExternal =>
    \A k \in 2..Len(stack) : Origin(stack[k].url) = Origin(stack[k-1].url)

\* C4: every call past the guard runs at a depth between 1 and depth, and a
\* call at the maximum depth never extracts links nor has a child call.
C4_DepthBounded ==
  /\ \A k \in 1..Len(stack) :
       /\ stack[k].currentDepth = k
       /\ 1 <= stack[k].currentDepth
       /\ stack[k].currentDepth <= depth
       /\ stack[k].currentDepth = depth =>
            /\ stack[k].pc \notin {"findLinks", "loop"}
            /\ stack[k].links = <<>>
            /\ k = Len(stack)
  /\ depth = 0 => (TotalLaunches = 0 /\ visited = {})

\* a page rendered at the maximum depth, below two expanded pages, about
\* to close its browser
C4_Witness ==
  /\ depth = 3
  /\ Len(stack) = depth
  /\ Top.pc = "close"

\* C5: a call that is in its link loop with links left stays in the loop
\* whatever happens in the calls below it, a failure included: it gives up
\* one link at a time, and a link it gives up is visited (claimed and
\* launched if it was not visited before) unless the guard rejected it.
C5_Step ==
  \A k \in 1..Len(stack) :
    (stack[k].pc = "loop" /\ stack[k].links # <<>>) =>
      /\ Len(stack') >= k
      /\ stack'[k].pc = "loop"
      /\ \/ stack'[k].links = stack[k].links
         \/ /\ stack'[k].links = Tail(stack[k].links)
            /\ \/ Head(stack[k].links) \in visited
               \/ Guard(visited, k + 1)
      /\ (k = Len(stack) /\ Head(stack[k].links) \notin visited
            /\ ~Guard(visited, k + 1)) =>
           /\ Len(stack') = k + 1
           /\ stack'[k + 1].url = Head(stack[k].links)
           /\ stack'[k + 1].pc = "launch"
           /\ visited' = visited \cup {Head(stack[k].links)}
           /\ launches' = [launches EXCEPT ![Head(stack[k].links)] = 1]

C5_SiblingsContinue == [][C5_Step]_vars

\* with depth 2: a child of the seed is being rendered after an earlier
\* child of the seed has failed
C5_Witness ==
  /\ depth = 2
  /\ Len(stack) = 2
  /\ Top.pc = "goto"
  /\ failed # {}
  /\ url \notin failed
  /\ Top.url \notin failed

\* ---- termination measure ----
\* the longest list findLinks can return
MaxAnchors ==
  IF MaxLinks > Len(ScenarioLinks) THEN MaxLinks ELSE Len(ScenarioLinks)

\* steps a call can still take by itself, its link loop included
FrameRank(f) ==
  CASE f.pc = "launch"      -> 8 + MaxAnchors
    [] f.pc = "newPage"     -> 7 + MaxAnchors
    [] f.pc = "setViewport" -> 6 + MaxAnchors
    [] f.pc = "goto"        -> 5 + MaxAnchors
    [] f.pc = "capture"     -> 4 + MaxAnchors
    [] f.pc = "findLinks"   -> 3 + MaxAnchors
    [] f.pc = "loop"        -> 2 + Len(f.links)
    [] OTHER                -> 1

RECURSIVE StackRank(_)
StackRank(stk) ==
  IF stk = <<>> THEN 0 ELSE FrameRank(Head(stk)) + StackRank(Tail(stk))

\* each URL that can still be claimed pays for one whole call
Rank ==
  (9 + MaxAnchors) * (maxPages - Cardinality(visited))
    + StackRank(stack)
    + (CASE status = "none" -> 2 [] status = "running" -> 1 [] OTHER -> 0)

\* C6: the crawl terminates and launches at most maxPages renders: every
\* step strictly decreases a measure that is a natural number, a call that
\* passes the guard adds one URL to visited, and a run that has not settled
\* its promise can always take a step.
C6_Step ==
  /\ Rank' < Rank
  /\ Rank' >= 0
  /\ Len(stack') > Len(stack) =>
       Cardinality(visited') = Cardinality(visited) + 1

C6_Terminates ==
  /\ [](TotalLaunches <= maxPages)
  /\ [](promise = "pending" => ENABLED Next)
  /\ [][C6_Step]_vars

\* the promise has resolved after as many renders as the cap allows
C6_Witness ==
  /\ promise = "resolved"
  /\ maxPages >= 2
  /\ TotalLaunches = maxPages
  /\ depth = 3

\* C7: when a seed URL is given the promise never rejects and the run never
\* reports the top-level error; it can always go on until it has reported
\* completion, however many calls failed.
C7_AlwaysCompletes ==
  url # <<>> =>
    /\ promise # "rejected"
    /\ status \notin {"error", "help"}
    /\ status # "completed" => ENABLED Next
    /\ status = "completed" => (promise = "resolved" /\ stack = <<>>)

\* completion is reported although the seed and one of its children failed
C7_Witness ==
  /\ status = "completed"
  /\ url \in failed
  /\ Cardinality(failed) >= 2

\* C8: with depth 1 and maxPages >= 1 only the seed is processed: it is the
\* only URL added to visited and the only render, and findLinks is never
\* called.
C8_DepthOneOnlySeed ==
  (depth = 1 /\ maxPages >= 1 /\ url # <<>> /\ status # "none") =>
    /\ visited = {url}
    /\ launches = [u \in Urls |-> IF u = url THEN 1 ELSE 0]
    /\ \A u \in Urls \ {url} : gotos[u] = 0
    /\ Len(stack) <= 1
    /\ \A k \in 1..Len(stack) :
         /\ stack[k].url = url
         /\ stack[k].pc \notin {"findLinks", "loop"}
         /\ stack[k].links = <<>>

\* a run with depth 1 completed after capturing the seed
C8_Witness ==
  /\ depth = 1
  /\ maxPages >= 1
  /\ status = "completed"
  /\ visited = {url}
  /\ gotos[url] = 1
  /\ failed = {}

\* C9: the list findLinks returns has no duplicates, and it is the list
\* the loop goes through; in Scenario B (followExternal false, depth 2,
\* maxPages 10, seed anchors x, x, y) findLinks returns a.test/x alone and
\* a.test/x is the only child claimed.
ScenarioB ==
  /\ web = "scenario"
  /\ url = SeedUrl
  /\ depth = 2
  /\ maxPages = DefaultMaxPages
  /\ ~followExternal

C9_Step ==
  (Running("findLinks") /\ Len(stack') = Len(stack)
     /\ stack'[Len(stack)].pc = "loop") =>
    /\ NoDup(stack'[Len(stack)].links)
    /\ ScenarioB => stack'[Len(stack)].links = <<SameUrl>>

C9_OneChildPerTarget ==
  /\ [](\A k \in 1..Len(stack) : NoDup(stack[k].links))
  /\ [][C9_Step]_vars
  /\ [](ScenarioB =>
          /\ visited \subseteq {SeedUrl, SameUrl}
          /\ TotalLaunches <= 2
          /\ (Len(stack) = 1 /\ Top.pc = "close") =>
               (visited = {SeedUrl, SameUrl} /\ launches[SameUrl] = 1))

\* Scenario B has run to completion with the seed and a.test/x captured
C9_Witness ==
  /\ ScenarioB
  /\ status = "completed"
  /\ visited = {SeedUrl, SameUrl}
  /\ failed = {}

\* C10: once visited holds maxPages URLs no step adds a URL, launches a
\* browser or starts a call; with maxPages 1 only the seed is ever claimed.
C10_Step ==
  Cardinality(visited) >= maxPages =>
    /\ visited' = visited
    /\ launches' = launches
    /\ Len(stack') <= Len(stack)

C10_RejectedAtCap ==
  /\ [][C10_Step]_vars
  /\ [](maxPages = 1 =>
          /\ visited \subseteq {url}
          /\ TotalLaunches <= 1
          /\ Len(stack) <= 1)

\* Scenario C: the run completed with the seed captured and its links
\* gone through, so the claim of a.test/x was attempted and rejected
C10_Witness ==
  /\ web = "scenario"
  /\ url = SeedUrl
  /\ ~followExternal
  /\ maxPages = 1
  /\ depth = 2
  /\ status = "completed"
  /\ failed = {}
  /\ visited = {SeedUrl}

Range(seq) == {seq[i] : i \in 1..Len(seq)}

\* C11: the seed is the first task and runs at depth 1: with depth >= 1 and
\* maxPages >= 1 it is the first URL added to visited and the first URL
\* launched and navigated to, whatever its scheme and origin are.
C11_Step ==
  (visited = {} /\ visited' # {}) =>
    /\ visited' = {url}
    /\ launches' = [u \in Urls |-> IF u = url THEN 1 ELSE 0]
    /\ stack' = <<Frame(url, 1)>>

C11_SeedFirst ==
  /\ []((url # <<>> /\ depth >= 1 /\ maxPages >= 1 /\ status # "none") =>
          (url \in visited /\ launches[url] = 1))
  /\ [](stack # <<>> => (stack[1].url = url /\ stack[1].currentDepth = 1))
  /\ [](\A u \in Urls :
          /\ u \in visited => url \in visited
          /\ launches[u] >= 1 => launches[url] >= 1
          /\ gotos[u] >= 1 => gotos[url] >= 1)
  /\ [][C11_Step]_vars

\* a seed that the link filter would reject (a mailto: URL) has been
\* claimed and launched, and page.goto() has been called for it
C11_Witness ==
  /\ url = MailUrl
  /\ ~KeepLink(url, Origin(url), TRUE)
  /\ visited = {url}
  /\ Running("goto")
  /\ Top.currentDepth = 1
  /\ gotos[url] = 1

\* the URLs that n or fewer links kept by findLinks lead to from the seed
\* in the graph web
RECURSIVE GraphReach(_)
GraphReach(n) ==
  IF n <= 0 THEN {url}
  ELSE LET near == GraphReach(n - 1)
       IN near \cup
            UNION {Range(FindLinks(GraphLinks(u), Origin(u), followExternal)) :
                     u \in near}

\* C12: a run in the graph web that ends below the page cap without any
\* failure has visited every URL that depth - 1 or fewer kept links lead to
\* from the seed.
C12_AllWithinDepthCaptured ==
  (web = "graph" /\ status = "completed" /\ failed = {}
     /\ Cardinality(visited) < maxPages) =>
    GraphReach(depth - 1) \subseteq visited

\* C13: with a resolution that does not parse to a width and a height the
\* seed is never added to visited and no browser is launched.
C13_ConfigErrorAborts ==
  ~ViewportValid(resolution) =>
    (visited = {} /\ TotalLaunches = 0 /\ open = {})

\* C14: every call below the seed is for a URL whose scheme is http or
\* https.
C14_OnlyHttpChildren ==
  \A k \in 2..Len(stack) :
    Scheme(stack[k].url) \in {<<"http">>, <<"http", "s">>}

\* the URLs of the pending calls whose puppeteer.launch() has returned
Launched ==
  {stack[k].url : k \in {j \in 1..Len(stack) : stack[j].pc # "launch"}}

\* C15 as stated: at most one browser is open at any point of a run.
C15_OneSessionAtATime == Cardinality(open) <= 1

\* C15 as amended: calls are sequential, every call below the innermost one
\* being suspended in its link loop, but a call keeps its browser open while
\* its child calls run: the open browsers are those of the pending calls
\* whose launch has returned, at most depth of them, and those of failed
\* calls.
C15_OpenBrowsers ==
  /\ open \subseteq (Launched \cup failed)
  /\ (Launched \ failed) \subseteq open
  /\ Cardinality(open \ failed) <= depth
  /\ \A k \in 1..(Len(stack) - 1) :
       stack[k].pc = "loop" /\ stack[k].url \in open

\* the browsers of the seed and of one of its children are open at once,
\* nothing having failed
C15_Witness ==
  /\ Len(stack) = 2
  /\ failed = {}
  /\ Top.pc = "goto"
  /\ open = {url, Top.url}
  /\ Top.url # url

\* C16: every open browser belongs to a pending call, and none is open
\* when the run reports completion.
C16_ReleasedOnEveryExit ==
  /\ \A u \in open : \E k \in 1..Len(stack) : stack[k].url = u
  /\ status = "completed" => open = {}

\* C17: a URL is claimed in one step: the step that calls
\* puppeteer.launch() for a URL finds it unvisited and visited below the
\* cap, and adds it; no other step changes visited.  So no URL is claimed
\* twice and visited never exceeds maxPages.
C17_Step ==
  /\ \A u \in Urls :
       launches'[u] # launches[u] =>
         /\ u \notin visited
         /\ Cardinality(visited) < maxPages
         /\ visited' = visited \cup {u}
         /\ launches'[u] = launches[u] + 1
         /\ Len(stack') = Len(stack) + 1
         /\ stack'[Len(stack')].url = u
         /\ stack'[Len(stack')].pc = "launch"
  /\ visited' # visited => launches' # launches

C17_ClaimIndivisible ==
  /\ [][C17_Step]_vars
  /\ [](\A u \in Urls : launches[u] = IF u \in visited THEN 1 ELSE 0)

\* a child call has just claimed the last page the cap allows and is
\* suspended at its first await
C17_Witness ==
  /\ maxPages >= 2
  /\ Cardinality(visited) = maxPages
  /\ Len(stack) >= 2
  /\ Top.pc = "launch"

\* the awaited calls that render and persist a page
RenderPcs == {"launch", "newPage", "setViewport", "goto", "capture"}

\* C18: when a render or persist step of a call throws, the call has
\* extracted no links and ends there; its callers stay as they are, the
\* direct caller going on with its next link.  A failed URL has no pending
\* call any more.
C18_Step ==
  (stack # <<>> /\ Top.pc \in RenderPcs /\ failed' # failed) =>
    /\ failed' = failed \cup {Top.url}
    /\ Top.links = <<>>
    /\ Len(stack') = Len(stack) - 1
    /\ \A k \in 1..(Len(stack) - 2) : stack'[k] = stack[k]
    /\ Len(stack) >= 2 =>
         LET caller == stack[Len(stack) - 1]
         IN stack'[Len(stack) - 1] =
              [caller EXCEPT !.links = Tail(caller.links)]

C18_FailedBranchEnds ==
  /\ [][C18_Step]_vars
  /\ [](\A k \in 1..Len(stack) :
          /\ stack[k].url \notin failed
          /\ stack[k].pc \in RenderPcs => stack[k].links = <<>>)

\* with depth 3: a child of the seed failed before page.goto() was called
\* for it, and the seed goes on with the links it has left
C18_Witness ==
  /\ depth = 3
  /\ Len(stack) = 1
  /\ Top.pc = "loop"
  /\ Top.links # <<>>
  /\ \E u \in failed : gotos[u] = 0 /\ u # url

\* C19: visited only grows; every URL launched and every failed URL is in
\* it, so failed URLs take up part of the cap.
C19_Step == visited \subseteq visited'

C19_VisitedOnlyGrows ==
  /\ [][C19_Step]_vars
  /\ [](failed \subseteq visited)
  /\ [](\A u \in Urls : launches[u] >= 1 => u \in visited)
  /\ [](\A k \in 1..Len(stack) : stack[k].url \in visited)
  /\ [](Cardinality(visited \ failed) + Cardinality(failed) <= maxPages)

\* the cap is reached with a failed URL counted in, and the running call
\* still has an unvisited link that will be rejected
C19_Witness ==
  /\ Cardinality(visited) = maxPages
  /\ failed # {}
  /\ Running("loop")
  /\ Top.links # <<>>
  /\ Head(Top.links) \notin visited
  /\ Cardinality(visited \ failed) < maxPages

====
